---- MODULE Spec2Model ----
(***************************************************************************)
(* Session-level authentication of frontend-platform:                      *)
(*   AbstractAuthService      src/src/auth/AbstractAuthService.js          *)
(*   AxiosJwtAuthService      src/src/auth/interceptors/                   *)
(*                            createApiInterceptor.js, lines 39-309        *)
(* The token services, the two provider interceptors, configureCache,      *)
(* camelCaseObject and logFrontendAuthError are imported by these files    *)
(* but are not part of the sources at hand; they are modelled from their   *)
(* documented contract (spec.md 4.1, 4.2, 4.3, 4.4).                       *)
(*                                                                         *)
(* JavaScript runs one callback at a time: an action is one synchronous    *)
(* run of code, from a call or the resumption of an await to the next      *)
(* await or the return.                                                    *)
(***************************************************************************)
EXTENDS Integers, Sequences, FiniteSets, TLC

\* Number of application tasks that may have an operation in flight at once.
NumProcs == 2

Procs == 1..NumProcs

(***************************************************************************)
(* Values                                                                  *)
(***************************************************************************)

\* JavaScript null and undefined, as records so that they compare with objects.
Null == [null |-> TRUE]

Undefined == [undefined |-> TRUE]

\* URLs are sequences of characters.
LOGIN_URL == <<"h", ":", "/", "l">>

BASE_URL == <<"h", ":", "/", "b">>

OtherUrl == <<"h", ":", "/", "b", "?", "x", "=", "1">>

\* The redirectUrl arguments a caller passes; one not given takes the default.
RedirectArgs == {[given |-> FALSE, url |-> <<>>], [given |-> TRUE, url |-> OtherUrl]}

\* document.referrer: none, the login page, a page under the login URL, another page.
Referrers == {<<>>, LOGIN_URL, LOGIN_URL \o <<"?", "x">>, BASE_URL}

\* String.prototype.startsWith
StartsWith(s, prefix) ==
    /\ Len(prefix) <= Len(s)
    /\ SubSeq(s, 1, Len(prefix)) = prefix

\* The characters encodeURIComponent leaves alone among those of the URLs above.
Unreserved == {"h", "l", "b", "x", "1"}

\* encodeURIComponent on one character: a reserved character becomes %XX.
EncodeChar(c) ==
    CASE c \in Unreserved -> <<c>>
      [] c = ":" -> <<"%", "3", "A">>
      [] c = "/" -> <<"%", "2", "F">>
      [] c = "?" -> <<"%", "3", "F">>
      [] c = "=" -> <<"%", "3", "D">>

RECURSIVE encodeURIComponent(_)
encodeURIComponent(s) ==
    IF s = <<>> THEN <<>>
    ELSE EncodeChar(Head(s)) \o encodeURIComponent(Tail(s))

\* The decoded credentials the backend can issue: one with roles, one without.
TokenA ==
    [email |-> "a@x", user_id |-> "1", preferred_username |-> "a",
     roles |-> <<"staff">>, administrator |-> TRUE, name |-> "A"]

TokenB ==
    [email |-> "b@x", user_id |-> "2", preferred_username |-> "b",
     administrator |-> FALSE, name |-> "B"]

Tokens == {TokenA, TokenB}

\* The bodies the account endpoint can answer with (snake_case keys).
Profiles == {[full_name |-> "Full", user_id |-> "77"]}

\* The values an application passes to setAuthenticatedUser.
SetUserArgs == {Null, [userId |-> "9", username |-> "z", roles |-> <<"x">>]}

\* The anti-forgery token the backend issues, and the failure of its fetch.
CsrfValue == [csrfToken |-> "t"]

CsrfFailure == [error |-> "AntiForgeryFetchFailure"]

\* Request methods, as axios hands them to the interceptors (lower case).
\* A mutant: delete is not protected.
CSRF_PROTECTED_METHODS_noDelete == {"post", "put", "patch"}

CSRF_PROTECTED_METHODS == {"post", "put", "patch", "delete"}

Methods == {"get", "post", "delete"}

\* The client objects: A = Object.create(axios.create()), H = axios.create(),
\* C = the instance configureCache resolves to, CA = Object.create(C).
ClientObjs == {"A", "H", "C", "CA"}

\* The axios instance whose interceptors and defaults an object resolves to:
\* Object.create(x) inherits both from x.
Base(client) ==
    CASE client = "A" -> "a0"
      [] client = "CA" -> "C"
      [] OTHER -> client

Bases == {"a0", "H", "C"}

\* options.middleware of the constructor: not given, or a list of functions.
MiddlewareOptions == {Undefined, [fns |-> <<"m1", "m2">>]}

MiddlewareFns == {"m1", "m2"}

(***************************************************************************)
(* State                                                                   *)
(***************************************************************************)
VARIABLES
    authenticatedUser,   \* AbstractAuthService.authenticatedUser
    referrer,            \* global.document.referrer
    credential,          \* the credential of the token service: Null or [claims, expired]
    refreshPromise,      \* the in-flight marker of the refresh: 0 or the refresh's id
    refreshReqs,         \* refresh calls the backend has not answered yet
    csrfToken,           \* the cached anti-forgery token, or Null
    csrfPromise,         \* the in-flight marker of the token fetch: 0 or its id
    csrfReqs,            \* token fetches the backend has not answered yet
    handles,             \* the four client fields of the service
    interceptors,        \* per axios instance: the request interceptors, in registration order
    cachePromise,        \* the promise of configureCache(): pending, resolved or rejected
    cachePc,             \* the handler of the constructor's promise chain that runs next
    chainRejection,      \* the error the constructor's promise chain ended rejected with
    optMiddleware,       \* options.middleware
    middleware,          \* this.middleware
    mwApplied,           \* per client object: how often each middleware was called on it
    ctorLog,             \* what the constructor's chain reported to the logging service
    dev,                 \* config.dev: the settings of the development service
    pc,                  \* per task: where its operation is
    op,                  \* per task: the operation it runs
    arg,                 \* per task: ensureAuthenticatedUser's redirectUrl
    req,                 \* per task: the request config in the interceptor chain
    chain,               \* per task: the request interceptors still to run
    awaited,             \* per task: the value its await resumes with
    wait,                \* per task: the id of the refresh or fetch it awaits, or 0
    snap,                \* per task: hydrateAuthenticatedUser's local `user`
    out,                 \* per task: how its operation settled
    eff                  \* per task: what its call did to the collaborators

svcVars == <<credential, refreshPromise, refreshReqs, csrfToken, csrfPromise, csrfReqs>>

ctorVars ==
    <<handles, interceptors, cachePromise, cachePc, chainRejection, optMiddleware,
      middleware, mwApplied, ctorLog, dev>>

procVars == <<pc, op, arg, req, chain, awaited, wait, snap, out, eff>>

vars == <<authenticatedUser, referrer, svcVars, ctorVars, procVars>>

(***************************************************************************)
(* Values of the tasks                                                     *)
(***************************************************************************)
NoError == [message |-> "", isRedirecting |-> FALSE]

\* ensureAuthenticatedUser's two errors (createApiInterceptor.js 210, 218-219).
RedirectLoopError ==
    [message |-> "Redirect from login page. Rejecting to avoid infinite redirect loop.",
     isRedirecting |-> FALSE]

UnauthorizedError ==
    [message |-> "Failed to ensure the user is authenticated", isRedirecting |-> TRUE]

\* The error of a request the backend or the network failed.
RequestError == [message |-> "Request failed", isRedirecting |-> FALSE]

\* The error of a request whose anti-forgery token could not be fetched.
CsrfError == [message |-> "AntiForgeryFetchFailure", isRedirecting |-> FALSE]

NoArg == [given |-> FALSE, url |-> <<>>]

NoReq ==
    [client |-> "none", method |-> "none", account |-> "", isPublic |-> FALSE,
     isCsrfExempt |-> FALSE, jwt |-> Null, csrf |-> Null]

NoOut == [kind |-> "none", value |-> Undefined, error |-> NoError]

Resolved(v) == [kind |-> "resolved", value |-> v, error |-> NoError]

Rejected(e) == [kind |-> "rejected", value |-> Undefined, error |-> e]

\* What one call did: the URLs it navigated to, the requests it sent to the
\* network through a client, what it logged, and its calls of the two token getters.
NoEff == [nav |-> <<>>, net |-> 0, log |-> <<>>, getJwt |-> 0, getCsrf |-> 0]

(***************************************************************************)
(* Credential provider: the access credential (spec.md 4.1, getCredential) *)
(***************************************************************************)
isTokenExpired(cred) == cred = Null \/ cred.expired

\* A refresh is needed when the credential is absent or expired, or on forceRefresh.
NeedsRefresh(forceRefresh) == forceRefresh \/ isTokenExpired(credential)

\* A mutant: a refresh is started although one is in flight.
StartsRefresh_noDedup(forceRefresh) == NeedsRefresh(forceRefresh)

\* A refresh call is made only when none is in flight.
StartsRefresh(forceRefresh) == NeedsRefresh(forceRefresh) /\ refreshPromise = 0

FreeRefreshId == CHOOSE i \in Procs : i \notin refreshReqs

\* The tasks suspended in getJwtToken.
WaitsRefresh(q, id) == pc[q] \in {"f_tok", "r_jwt"} /\ wait[q] = id

\* The synchronous part of getJwtToken(forceRefresh), called by task p: the cached
\* credential, or the promise of the refresh in flight, or that of a new refresh.
getJwtToken(p, forceRefresh) ==
    /\ refreshReqs' =
          IF StartsRefresh(forceRefresh) THEN refreshReqs \cup {FreeRefreshId}
          ELSE refreshReqs
    /\ refreshPromise' =
          IF StartsRefresh(forceRefresh) THEN FreeRefreshId ELSE refreshPromise
    /\ wait' = [wait EXCEPT ![p] = IF NeedsRefresh(forceRefresh) THEN refreshPromise' ELSE 0]
    /\ awaited' =
          [awaited EXCEPT ![p] =
              IF NeedsRefresh(forceRefresh) THEN Undefined ELSE credential.claims]
    /\ UNCHANGED credential

\* The backend answers refresh `id`: a credential, or a failure (Null). The marker
\* is cleared and every task awaiting this refresh resumes with its result; a
\* failure is handed on as null, never thrown.
RefreshSettle(id, result) ==
    /\ id \in refreshReqs
    /\ refreshReqs' = refreshReqs \ {id}
    /\ refreshPromise' = IF refreshPromise = id THEN 0 ELSE refreshPromise
    /\ credential' =
          IF result # Null THEN [claims |-> result, expired |-> FALSE] ELSE credential
    /\ awaited' = [q \in Procs |-> IF WaitsRefresh(q, id) THEN result ELSE awaited[q]]
    /\ wait' = [q \in Procs |-> IF WaitsRefresh(q, id) THEN 0 ELSE wait[q]]
    /\ UNCHANGED <<authenticatedUser, referrer, csrfToken, csrfPromise, csrfReqs,
                   ctorVars, pc, op, arg, req, chain, snap, out, eff>>

\* Time passes: the credential reaches its expiry.
Expire ==
    /\ credential # Null
    /\ ~credential.expired
    /\ credential' = [credential EXCEPT !.expired = TRUE]
    /\ UNCHANGED <<authenticatedUser, referrer, refreshPromise, refreshReqs, csrfToken,
                   csrfPromise, csrfReqs, ctorVars, procVars>>

(***************************************************************************)
(* Credential provider: the anti-forgery token (4.1, getAntiForgeryToken)  *)
(***************************************************************************)
\* A mutant: a fetch is started although one is in flight.
StartsCsrfFetch_noDedup == csrfToken = Null

\* A fetch is made when no token is cached and none is in flight.
StartsCsrfFetch == csrfToken = Null /\ csrfPromise = 0

FreeCsrfId == CHOOSE i \in Procs : i \notin csrfReqs

WaitsCsrf(q, id) == pc[q] = "r_csrf" /\ wait[q] = id

\* The synchronous part of getCsrfToken, called by task p.
getCsrfToken(p) ==
    /\ csrfReqs' = IF StartsCsrfFetch THEN csrfReqs \cup {FreeCsrfId} ELSE csrfReqs
    /\ csrfPromise' = IF StartsCsrfFetch THEN FreeCsrfId ELSE csrfPromise
    /\ wait' = [wait EXCEPT ![p] = IF csrfToken = Null THEN csrfPromise' ELSE 0]
    /\ awaited' = [awaited EXCEPT ![p] = IF csrfToken = Null THEN Undefined ELSE csrfToken]
    /\ UNCHANGED csrfToken

\* A mutant: a failed fetch resumes its waiters with no token instead of an error.
CsrfDelivered_swallow(result) == IF result = CsrfValue THEN result ELSE Null

\* What a settled fetch hands to its waiters: the token, or the failure as an error.
CsrfDelivered(result) == IF result = CsrfValue THEN result ELSE CsrfError

\* The backend answers fetch `id`: the token, which is then cached, or a failure.
CsrfSettle(id, result) ==
    /\ id \in csrfReqs
    /\ csrfReqs' = csrfReqs \ {id}
    /\ csrfPromise' = IF csrfPromise = id THEN 0 ELSE csrfPromise
    /\ csrfToken' = IF result = CsrfValue THEN result ELSE csrfToken
    /\ awaited' =
          [q \in Procs |-> IF WaitsCsrf(q, id) THEN CsrfDelivered(result) ELSE awaited[q]]
    /\ wait' = [q \in Procs |-> IF WaitsCsrf(q, id) THEN 0 ELSE wait[q]]
    /\ UNCHANGED <<authenticatedUser, referrer, credential, refreshPromise, refreshReqs,
                   ctorVars, pc, op, arg, req, chain, snap, out, eff>>

(***************************************************************************)
(* Session: AbstractAuthService and AxiosJwtAuthService                    *)
(***************************************************************************)
getAuthenticatedUser == authenticatedUser

setAuthenticatedUser(authUser) == authenticatedUser' = authUser

\* The user object fetchAuthenticatedUser builds from the decoded token.
UserFromToken(decodedAccessToken) ==
    [email |-> decodedAccessToken.email,
     userId |-> decodedAccessToken.user_id,
     username |-> decodedAccessToken.preferred_username,
     roles |-> IF "roles" \in DOMAIN decodedAccessToken
               THEN decodedAccessToken.roles ELSE <<>>,
     administrator |-> decodedAccessToken.administrator,
     name |-> decodedAccessToken.name]

\* A mutant: an absent credential leaves the user as it was.
FetchedUser_keep(decodedAccessToken) ==
    IF decodedAccessToken # Null THEN UserFromToken(decodedAccessToken)
    ELSE authenticatedUser

\* What fetchAuthenticatedUser sets the user to.
FetchedUser(decodedAccessToken) ==
    IF decodedAccessToken # Null THEN UserFromToken(decodedAccessToken) ELSE Null

\* A mutant: the target is attached unencoded.
getLoginRedirectUrl_raw(redirectUrl) ==
    LOGIN_URL \o <<"?", "n", "e", "x", "t", "=">> \o redirectUrl

getLoginRedirectUrl(redirectUrl) ==
    LOGIN_URL \o <<"?", "n", "e", "x", "t", "=">> \o encodeURIComponent(redirectUrl)

\* global.document.referrer && global.document.referrer.startsWith(LOGIN_URL)
isRedirectFromLoginPage == referrer # <<>> /\ StartsWith(referrer, LOGIN_URL)

\* fetchAuthenticatedUser(options), up to its await.
CallFetch(p, forceRefresh) ==
    /\ pc[p] = "idle"
    /\ getJwtToken(p, forceRefresh)
    /\ pc' = [pc EXCEPT ![p] = "f_tok"]
    /\ op' = [op EXCEPT ![p] = "fetch"]
    /\ eff' = [eff EXCEPT ![p] = [NoEff EXCEPT !.getJwt = 1]]
    /\ UNCHANGED <<authenticatedUser, referrer, csrfToken, csrfPromise, csrfReqs,
                   ctorVars, arg, req, chain, snap, out>>

\* ensureAuthenticatedUser(redirectUrl), up to the await in the
\* fetchAuthenticatedUser() it calls.
CallEnsure(p, redirectUrl) ==
    /\ pc[p] = "idle"
    /\ getJwtToken(p, FALSE)
    /\ pc' = [pc EXCEPT ![p] = "f_tok"]
    /\ op' = [op EXCEPT ![p] = "ensure"]
    /\ arg' = [arg EXCEPT ![p] = redirectUrl]
    /\ eff' = [eff EXCEPT ![p] = [NoEff EXCEPT !.getJwt = 1]]
    /\ UNCHANGED <<authenticatedUser, referrer, csrfToken, csrfPromise, csrfReqs,
                   ctorVars, req, chain, snap, out>>

\* fetchAuthenticatedUser after its await: the user is set from the token and the
\* call resolves to the current user. Called from ensureAuthenticatedUser, its
\* caller resumes in a later step.
FetchResume(p) ==
    /\ pc[p] = "f_tok"
    /\ wait[p] = 0
    /\ setAuthenticatedUser(FetchedUser(awaited[p]))
    /\ awaited' = [awaited EXCEPT ![p] = Undefined]
    /\ IF op[p] = "fetch"
       THEN /\ pc' = [pc EXCEPT ![p] = "done"]
            /\ out' = [out EXCEPT ![p] = Resolved(authenticatedUser')]
       ELSE /\ pc' = [pc EXCEPT ![p] = "e_decide"]
            /\ out' = out
    /\ UNCHANGED <<referrer, svcVars, ctorVars, op, arg, req, chain, wait, snap, eff>>

\* A mutant: the redirect is started before the referrer is looked at.
EnsureDecide_redirectFirst(p) ==
    /\ pc[p] = "e_decide"
    /\ pc' = [pc EXCEPT ![p] = "done"]
    /\ IF getAuthenticatedUser = Null
       THEN /\ eff' = [eff EXCEPT ![p].nav =
                          Append(@, getLoginRedirectUrl(
                              IF arg[p].given THEN arg[p].url ELSE BASE_URL))]
            /\ out' = [out EXCEPT ![p] =
                          IF isRedirectFromLoginPage THEN Rejected(RedirectLoopError)
                          ELSE Rejected(UnauthorizedError)]
       ELSE /\ out' = [out EXCEPT ![p] = Resolved(getAuthenticatedUser)]
            /\ eff' = eff
    /\ UNCHANGED <<authenticatedUser, referrer, svcVars, ctorVars, op, arg, req, chain,
                   awaited, wait, snap>>

\* A mutant: the referrer is looked at before the user.
EnsureDecide_referrerFirst(p) ==
    /\ pc[p] = "e_decide"
    /\ pc' = [pc EXCEPT ![p] = "done"]
    /\ IF isRedirectFromLoginPage
       THEN /\ out' = [out EXCEPT ![p] = Rejected(RedirectLoopError)]
            /\ eff' = [eff EXCEPT ![p].log = Append(@, RedirectLoopError)]
       ELSE IF getAuthenticatedUser = Null
            THEN /\ eff' = [eff EXCEPT ![p].nav =
                               Append(@, getLoginRedirectUrl(
                                   IF arg[p].given THEN arg[p].url ELSE BASE_URL))]
                 /\ out' = [out EXCEPT ![p] = Rejected(UnauthorizedError)]
            ELSE /\ out' = [out EXCEPT ![p] = Resolved(getAuthenticatedUser)]
                 /\ eff' = eff
    /\ UNCHANGED <<authenticatedUser, referrer, svcVars, ctorVars, op, arg, req, chain,
                   awaited, wait, snap>>

\* ensureAuthenticatedUser after its await (lines 205-223).
EnsureDecide(p) ==
    /\ pc[p] = "e_decide"
    /\ pc' = [pc EXCEPT ![p] = "done"]
    /\ IF getAuthenticatedUser = Null
       THEN IF isRedirectFromLoginPage
            THEN /\ out' = [out EXCEPT ![p] = Rejected(RedirectLoopError)]
                 /\ eff' = [eff EXCEPT ![p].log = Append(@, RedirectLoopError)]
            ELSE /\ eff' = [eff EXCEPT ![p].nav =
                               Append(@, getLoginRedirectUrl(
                                   IF arg[p].given THEN arg[p].url ELSE BASE_URL))]
                 /\ out' = [out EXCEPT ![p] = Rejected(UnauthorizedError)]
       ELSE /\ out' = [out EXCEPT ![p] = Resolved(getAuthenticatedUser)]
            /\ eff' = eff
    /\ UNCHANGED <<authenticatedUser, referrer, svcVars, ctorVars, op, arg, req, chain,
                   awaited, wait, snap>>

\* The application calls setAuthenticatedUser.
SetUser(authUser) ==
    /\ setAuthenticatedUser(authUser)
    /\ UNCHANGED <<referrer, svcVars, ctorVars, procVars>>

\* The caller has taken the result of its call; the task is free for another.
Return(p) ==
    /\ pc[p] = "done"
    /\ pc' = [pc EXCEPT ![p] = "idle"]
    /\ op' = [op EXCEPT ![p] = "none"]
    /\ arg' = [arg EXCEPT ![p] = NoArg]
    /\ req' = [req EXCEPT ![p] = NoReq]
    /\ chain' = [chain EXCEPT ![p] = <<>>]
    /\ awaited' = [awaited EXCEPT ![p] = Undefined]
    /\ snap' = [snap EXCEPT ![p] = Null]
    /\ out' = [out EXCEPT ![p] = NoOut]
    /\ eff' = [eff EXCEPT ![p] = NoEff]
    /\ UNCHANGED <<authenticatedUser, referrer, svcVars, ctorVars, wait>>

(***************************************************************************)
(* Requests through a client: the interceptor chain (4.2)                  *)
(***************************************************************************)
RECURSIVE Reverse(_)
Reverse(s) == IF s = <<>> THEN <<>> ELSE Append(Reverse(Tail(s)), Head(s))

\* A mutant: the interceptors run in the order of their registration.
RunOrder_registered(client) == interceptors[Base(client)]

\* axios runs the request interceptors of the instance last registered first.
RunOrder(client) == Reverse(interceptors[Base(client)])

\* A mutant: the credential interceptor never skips.
JwtShouldSkip_never(axiosRequestConfig) == FALSE

\* shouldSkip of the credential interceptor (line 272).
JwtShouldSkip(axiosRequestConfig) == axiosRequestConfig.isPublic

\* A mutant: the exempt flag is not looked at.
CsrfShouldSkip_noExempt(axiosRequestConfig) ==
    axiosRequestConfig.method \notin CSRF_PROTECTED_METHODS

\* shouldSkip of the anti-forgery interceptor (lines 280-284).
CsrfShouldSkip(axiosRequestConfig) ==
    \/ axiosRequestConfig.isCsrfExempt
    \/ axiosRequestConfig.method \notin CSRF_PROTECTED_METHODS

ResponseOk(data) == [status |-> 200, data |-> data]

ResponseError == [status |-> 500, data |-> Undefined]

\* What the backend can answer to a request: the account endpoint answers with a
\* profile, every endpoint can fail.
Responses(p) ==
    IF op[p] = "hydrate" THEN {ResponseOk(d) : d \in Profiles} \cup {ResponseError}
    ELSE {ResponseOk(Undefined), ResponseError}

\* The next link of the request's promise chain: the next interceptor, or the
\* dispatch of the request when all have run.
ReqNext(p) ==
    /\ pc[p] = "r_next"
    /\ IF chain[p] = <<>>
       THEN /\ pc' = [pc EXCEPT ![p] = "r_net"]
            /\ eff' = [eff EXCEPT ![p].net = @ + 1]
            /\ UNCHANGED <<svcVars, chain, awaited, wait>>
       ELSE /\ chain' = [chain EXCEPT ![p] = Tail(@)]
            /\ IF Head(chain[p]) = "jwt"
               THEN IF JwtShouldSkip(req[p])
                    THEN UNCHANGED <<svcVars, pc, awaited, wait, eff>>
                    ELSE /\ getJwtToken(p, FALSE)
                         /\ pc' = [pc EXCEPT ![p] = "r_jwt"]
                         /\ eff' = [eff EXCEPT ![p].getJwt = @ + 1]
                         /\ UNCHANGED <<csrfToken, csrfPromise, csrfReqs>>
               ELSE IF CsrfShouldSkip(req[p])
                    THEN UNCHANGED <<svcVars, pc, awaited, wait, eff>>
                    ELSE /\ getCsrfToken(p)
                         /\ pc' = [pc EXCEPT ![p] = "r_csrf"]
                         /\ eff' = [eff EXCEPT ![p].getCsrf = @ + 1]
                         /\ UNCHANGED <<credential, refreshPromise, refreshReqs>>
    /\ UNCHANGED <<authenticatedUser, referrer, ctorVars, op, arg, req, snap, out>>

\* The credential interceptor after its await: the credential is attached; with
\* none, the request goes on unauthenticated.
ReqJwtResume(p) ==
    /\ pc[p] = "r_jwt"
    /\ wait[p] = 0
    /\ req' = [req EXCEPT ![p].jwt = awaited[p]]
    /\ awaited' = [awaited EXCEPT ![p] = Undefined]
    /\ pc' = [pc EXCEPT ![p] = "r_next"]
    /\ UNCHANGED <<authenticatedUser, referrer, svcVars, ctorVars, op, arg, chain, wait,
                   snap, out, eff>>

\* The anti-forgery interceptor after its await: the token is set as a header; a
\* failed fetch fails the request.
ReqCsrfResume(p) ==
    /\ pc[p] = "r_csrf"
    /\ wait[p] = 0
    /\ IF awaited[p] = CsrfValue
       THEN /\ req' = [req EXCEPT ![p].csrf = awaited[p]]
            /\ pc' = [pc EXCEPT ![p] = "r_next"]
            /\ awaited' = [awaited EXCEPT ![p] = Undefined]
       ELSE /\ awaited' = [awaited EXCEPT ![p] = Rejected(CsrfError)]
            /\ pc' = [pc EXCEPT ![p] = "r_resp"]
            /\ UNCHANGED req
    /\ UNCHANGED <<authenticatedUser, referrer, svcVars, ctorVars, op, arg, chain, wait,
                   snap, out, eff>>

\* The backend answers the request; an error response is raised, enriched, as
\* the request's rejection.
ReqRespond(p, response) ==
    /\ pc[p] = "r_net"
    /\ pc' = [pc EXCEPT ![p] = "r_resp"]
    /\ awaited' = [awaited EXCEPT ![p] =
                      IF response.status = 200 THEN Resolved(response)
                      ELSE Rejected(RequestError)]
    /\ UNCHANGED <<authenticatedUser, referrer, svcVars, ctorVars, op, arg, req, chain,
                   wait, snap, out, eff>>

(***************************************************************************)
(* hydrateAuthenticatedUser                                                *)
(***************************************************************************)
\* camelCase of the keys of the account endpoint.
camelCase(key) ==
    CASE key = "full_name" -> "fullName"
      [] key = "user_id" -> "userId"
      [] OTHER -> key

\* camelCaseObject: the object with every key in camelCase.
camelCaseObject(obj) ==
    [k \in {camelCase(w) : w \in DOMAIN obj} |->
        obj[CHOOSE w \in DOMAIN obj : camelCase(w) = k]]

\* A mutant: on a key collision the existing user's value is kept.
SpreadMerge_userWins(user, data) ==
    [k \in DOMAIN user \cup DOMAIN data |-> IF k \in DOMAIN user THEN user[k] ELSE data[k]]

\* { ...user, ...data }
SpreadMerge(user, data) ==
    [k \in DOMAIN user \cup DOMAIN data |-> IF k \in DOMAIN data THEN data[k] ELSE user[k]]

\* A mutant: the profile is looked up for an anonymous session too.
HydrateSkips_never(user) == FALSE

\* hydrateAuthenticatedUser does nothing without a user (line 241).
HydrateSkips(user) == user = Null

\* hydrateAuthenticatedUser up to its await: with a user, the GET of the account
\* is handed to the authenticated client.
CallHydrate(p) ==
    /\ pc[p] = "idle"
    /\ op' = [op EXCEPT ![p] = "hydrate"]
    /\ IF HydrateSkips(getAuthenticatedUser)
       THEN /\ pc' = [pc EXCEPT ![p] = "done"]
            /\ out' = [out EXCEPT ![p] = Resolved(Undefined)]
            /\ UNCHANGED <<req, chain, snap>>
       ELSE /\ snap' = [snap EXCEPT ![p] = getAuthenticatedUser]
            /\ req' = [req EXCEPT ![p] =
                          [NoReq EXCEPT !.client = handles.authenticatedHttpClient,
                                        !.method = "get",
                                        !.account =
                                            IF "username" \in DOMAIN getAuthenticatedUser
                                            THEN getAuthenticatedUser.username
                                            ELSE "undefined"]]
            /\ chain' = [chain EXCEPT ![p] = RunOrder(handles.authenticatedHttpClient)]
            /\ pc' = [pc EXCEPT ![p] = "r_next"]
            /\ out' = out
    /\ UNCHANGED <<authenticatedUser, referrer, svcVars, ctorVars, arg, awaited, wait, eff>>

\* hydrateAuthenticatedUser after its await (line 244); a failed GET rejects it.
HydrateResume(p) ==
    /\ pc[p] = "r_resp"
    /\ op[p] = "hydrate"
    /\ pc' = [pc EXCEPT ![p] = "done"]
    /\ awaited' = [awaited EXCEPT ![p] = Undefined]
    /\ IF awaited[p].kind = "resolved"
       THEN /\ setAuthenticatedUser(
                   SpreadMerge(snap[p], camelCaseObject(awaited[p].value.data)))
            /\ out' = [out EXCEPT ![p] = Resolved(Undefined)]
       ELSE /\ out' = [out EXCEPT ![p] = Rejected(awaited[p].error)]
            /\ UNCHANGED authenticatedUser
    /\ UNCHANGED <<referrer, svcVars, ctorVars, op, arg, req, chain, wait, snap, eff>>

(***************************************************************************)
(* Client factory: the constructor's promise chain and the middleware      *)
(***************************************************************************)
NoHandle == "none"

\* The entries the constructor's chain writes to the logging service.
CacheFailureEntry == "configureCache failed with error"

MiddlewareErrorEntry == "middleware error"

MiddlewareError == [message |-> "middleware error", isRedirecting |-> FALSE]

\* The object addAuthenticationToHttpClient returns: Object.create(newHttpClient).
Derived(newHttpClient) == IF newHttpClient = "a0" THEN "A" ELSE "CA"

\* The interceptors after addAuthenticationToHttpClient(newHttpClient): use() on
\* the interceptors the new object inherits registers them with newHttpClient.
AddAuthentication(ints, newHttpClient) ==
    [ints EXCEPT ![newHttpClient] = @ \o <<"csrf", "jwt">>]

getAuthenticatedHttpClient(useCache) ==
    IF useCache THEN handles.cachedAuthenticatedHttpClient
    ELSE handles.authenticatedHttpClient

getHttpClient(useCache) ==
    IF useCache THEN handles.cachedHttpClient ELSE handles.httpClient

\* A mutant: the list of the base class, without the cached clients.
getMiddlewareClients_base == <<handles.authenticatedHttpClient, handles.httpClient>>

getMiddlewareClients ==
    <<handles.authenticatedHttpClient, handles.httpClient,
      handles.cachedAuthenticatedHttpClient, handles.cachedHttpClient>>

\* The persistent cache store answers: configureCache() resolves or rejects.
CacheSettle(ok) ==
    /\ cachePromise = "pending"
    /\ cachePromise' = IF ok THEN "resolved" ELSE "rejected"
    /\ cachePc' = IF ok THEN "then" ELSE "catch"
    /\ UNCHANGED <<authenticatedUser, referrer, svcVars, handles, interceptors,
                   chainRejection, optMiddleware, middleware, mwApplied, ctorLog,
                   dev, procVars>>

\* The .then handler (lines 87-90).
CacheThen ==
    /\ cachePc = "then"
    /\ handles' = [handles EXCEPT !.cachedAuthenticatedHttpClient = Derived("C"),
                                  !.cachedHttpClient = "C"]
    /\ interceptors' = AddAuthentication(interceptors, "C")
    /\ cachePc' = "finally"
    /\ UNCHANGED <<authenticatedUser, referrer, svcVars, cachePromise, chainRejection,
                   optMiddleware, middleware, mwApplied, ctorLog, dev, procVars>>

\* A mutant: the fallback leaves the unauthenticated cached handle unset.
CacheCatchHandles_half ==
    [handles EXCEPT !.cachedAuthenticatedHttpClient = handles.authenticatedHttpClient]

\* The handles after the .catch handler (lines 93-94).
CacheCatchHandles ==
    [handles EXCEPT !.cachedAuthenticatedHttpClient = handles.authenticatedHttpClient,
                    !.cachedHttpClient = handles.httpClient]

\* The .catch handler (lines 91-96).
CacheCatch ==
    /\ cachePc = "catch"
    /\ handles' = CacheCatchHandles
    /\ ctorLog' = Append(ctorLog, CacheFailureEntry)
    /\ cachePc' = "finally"
    /\ UNCHANGED <<authenticatedUser, referrer, svcVars, interceptors, cachePromise,
                   chainRejection, optMiddleware, middleware, mwApplied, dev, procVars>>

\* The calls applyMiddleware(mws) makes, in order: each middleware on each of the
\* clients that is set (client && middlewareFn(client)).
MiddlewareCalls(mws, clients) ==
    LET n == Len(clients)
        all == [k \in 1..(Len(mws) * n) |->
                   <<mws[((k - 1) \div n) + 1], clients[((k - 1) % n) + 1]>>]
    IN  SelectSeq(all, LAMBDA c : c[2] # NoHandle)

\* The middleware list applyMiddleware works on: its parameter defaults to [].
MiddlewareList(mws) == IF mws = Undefined THEN <<>> ELSE mws.fns

\* The most calls one applyMiddleware makes.
MaxCalls == Cardinality(MiddlewareFns) * Len(getMiddlewareClients)

\* mwApplied after the first n of the calls returned.
Applied(calls, n) ==
    [o \in ClientObjs |-> [m \in MiddlewareFns |->
        mwApplied[o][m] + Cardinality({k \in 1..n : calls[k] = <<m, o>>})]]

\* The .finally handler (lines 96-99): this.middleware is set and the middleware
\* applied. throwAt = 0: no middleware throws; otherwise the call numbered throwAt
\* throws, which is logged and thrown on.
CacheFinally(throwAt) ==
    /\ cachePc = "finally"
    /\ LET calls == MiddlewareCalls(MiddlewareList(optMiddleware), getMiddlewareClients)
       IN  /\ throwAt <= Len(calls)
           /\ middleware' = optMiddleware
           /\ mwApplied' =
                 Applied(calls, IF throwAt = 0 THEN Len(calls) ELSE throwAt - 1)
    /\ IF throwAt = 0
       THEN /\ cachePc' = "done"
            /\ UNCHANGED <<ctorLog, chainRejection>>
       ELSE /\ cachePc' = "unhandled"
            /\ ctorLog' = Append(ctorLog, MiddlewareErrorEntry)
            /\ chainRejection' = MiddlewareError
    /\ UNCHANGED <<authenticatedUser, referrer, svcVars, handles, interceptors,
                   cachePromise, optMiddleware, dev, procVars>>

(***************************************************************************)
(* Requests of the application                                             *)
(***************************************************************************)
TypeError == [message |-> "Cannot read properties of null", isRedirecting |-> FALSE]

\* The application takes a client from one of the two getters and sends a request
\* with it. A handle that is null has no request methods.
CallRequest(p, authenticated, useCache, method, isPublic, isCsrfExempt) ==
    LET client == IF authenticated THEN getAuthenticatedHttpClient(useCache)
                  ELSE getHttpClient(useCache)
    IN  /\ pc[p] = "idle"
        /\ op' = [op EXCEPT ![p] = "request"]
        /\ req' = [req EXCEPT ![p] =
                      [NoReq EXCEPT !.client = client, !.method = method,
                                    !.isPublic = isPublic,
                                    !.isCsrfExempt = isCsrfExempt]]
        /\ IF client = NoHandle
           THEN /\ pc' = [pc EXCEPT ![p] = "done"]
                /\ out' = [out EXCEPT ![p] = Rejected(TypeError)]
                /\ UNCHANGED chain
           ELSE /\ pc' = [pc EXCEPT ![p] = "r_next"]
                /\ chain' = [chain EXCEPT ![p] = RunOrder(client)]
                /\ out' = out
        /\ UNCHANGED <<authenticatedUser, referrer, svcVars, ctorVars, arg, awaited,
                       wait, snap, eff>>

\* The request's promise settles for the application.
RequestResume(p) ==
    /\ pc[p] = "r_resp"
    /\ op[p] = "request"
    /\ pc' = [pc EXCEPT ![p] = "done"]
    /\ out' = [out EXCEPT ![p] = awaited[p]]
    /\ awaited' = [awaited EXCEPT ![p] = Undefined]
    /\ UNCHANGED <<authenticatedUser, referrer, svcVars, ctorVars, op, arg, req, chain,
                   wait, snap, eff>>

(***************************************************************************)
(* DevelopmentAuthService: the mock user and the canned responses (4.5)    *)
(***************************************************************************)
\* The entries of a table of canned responses: each overrides some fields.
MockUsers == [status |-> 404, data |-> "none"]

MockCourses == [data |-> "list", headers |-> [content_type |-> "text/plain"]]

ApiTable == [users |-> MockUsers, courses |-> MockCourses]

DevUser == [userId |-> "3", username |-> "dev", roles |-> <<>>]

\* config.dev: absent, or with a mock user, a table, or both.
DevConfigs ==
    {Undefined, [apiConfig |-> ApiTable], [authenticatedUser |-> DevUser],
     [authenticatedUser |-> DevUser, apiConfig |-> ApiTable]}

\* The mockApiId of a request config, as the property key it is used as: a config
\* without one is looked up under "undefined".
MockApiIds == {"undefined", "users", "courses", "other", "constructor"}

\* Properties every object literal inherits from Object.prototype.
ObjectPrototype == {"constructor", "toString", "valueOf", "hasOwnProperty"}

\* The value of an inherited property: a function, with no enumerable property.
NativeFunction == [native |-> "function"]

\* obj[key] on an object literal: own properties first, then the prototype's.
GetProperty(obj, key) ==
    IF key \in DOMAIN obj THEN obj[key]
    ELSE IF key \in ObjectPrototype THEN NativeFunction
    ELSE Undefined

\* The own enumerable properties of a value, which a spread copies.
OwnProperties(v) == IF v = NativeFunction THEN <<>> ELSE v

\* this.config.dev || {}
DevSettings == IF dev = Undefined THEN <<>> ELSE dev

\* A mutant: the mock user of config.dev is not looked at.
DevAuthenticatedUser_null == Null

\* authenticatedUser || null (part_000 53-54)
DevAuthenticatedUser ==
    IF "authenticatedUser" \in DOMAIN DevSettings THEN DevSettings.authenticatedUser
    ELSE Null

\* this.config.dev && this.config.dev.apiConfig || {} (part_000 65)
DevApiConfig ==
    IF "apiConfig" \in DOMAIN DevSettings THEN DevSettings.apiConfig ELSE <<>>

\* The adapter of a request config: the one of axios, or the one the mock
\* interceptor sets, which holds the table's entry.
DefaultAdapter == [mock |-> FALSE, callConfig |-> Undefined]

MockAdapter(callConfig) == [mock |-> TRUE, callConfig |-> callConfig]

NoDevReq == [client |-> "none", mockApiId |-> "undefined", adapter |-> DefaultAdapter]

\* The response the mock adapter resolves with (createApiInterceptor.js 18-27).
MockResponse(config, callConfig) ==
    SpreadMerge([data |-> <<>>, status |-> 200, statusText |-> "OK",
                 headers |-> [content_type |-> "application/json"],
                 config |-> config, request |-> <<>>],
                OwnProperties(callConfig))

\* A mutant: the table is asked for its own keys only.
MockLookup_ownKeys(apiConfig, mockApiId) ==
    IF mockApiId \in DOMAIN apiConfig THEN apiConfig[mockApiId] ELSE Undefined

\* apiConfig[mockApiId] (createApiInterceptor.js 9, 14)
MockLookup(apiConfig, mockApiId) == GetProperty(apiConfig, mockApiId)

\* The interceptor createApiInterceptor returns (createApiInterceptor.js 6-32).
ApiInterceptor(apiConfig, axiosRequestConfig) ==
    IF MockLookup(apiConfig, axiosRequestConfig.mockApiId) = Undefined
    THEN axiosRequestConfig
    ELSE [axiosRequestConfig EXCEPT
             !.adapter = MockAdapter(MockLookup(apiConfig, axiosRequestConfig.mockApiId))]

NotMockedEntry == "could not find mockApiId for: "

\* The application sends a request with the client of one of the two getters.
DevCallRequest(p, authenticated, mockApiId) ==
    LET client == IF authenticated THEN getAuthenticatedHttpClient(FALSE)
                  ELSE getHttpClient(FALSE)
    IN  /\ pc[p] = "idle"
        /\ op' = [op EXCEPT ![p] = "request"]
        /\ req' = [req EXCEPT ![p] =
                      [NoDevReq EXCEPT !.client = client, !.mockApiId = mockApiId]]
        /\ pc' = [pc EXCEPT ![p] = "r_next"]
        /\ chain' = [chain EXCEPT ![p] = RunOrder(client)]
        /\ UNCHANGED <<authenticatedUser, referrer, svcVars, ctorVars, arg, awaited,
                       wait, snap, out, eff>>

\* The next link of the request's promise chain: the mock interceptor, or the
\* dispatch of the request to its adapter.
DevReqNext(p) ==
    /\ pc[p] = "r_next"
    /\ IF chain[p] # <<>>
       THEN /\ chain' = [chain EXCEPT ![p] = Tail(@)]
            /\ req' = [req EXCEPT ![p] = ApiInterceptor(DevApiConfig, @)]
            /\ eff' = [eff EXCEPT ![p].log =
                          IF MockLookup(DevApiConfig, req[p].mockApiId) = Undefined
                          THEN Append(@, NotMockedEntry) ELSE @]
            /\ UNCHANGED <<pc, awaited>>
       ELSE IF req[p].adapter.mock
            THEN /\ pc' = [pc EXCEPT ![p] = "r_resp"]
                 /\ awaited' = [awaited EXCEPT ![p] =
                                   Resolved(MockResponse(req[p], req[p].adapter.callConfig))]
                 /\ UNCHANGED <<chain, req, eff>>
            ELSE /\ pc' = [pc EXCEPT ![p] = "r_net"]
                 /\ eff' = [eff EXCEPT ![p].net = @ + 1]
                 /\ UNCHANGED <<chain, req, awaited>>
    /\ UNCHANGED <<authenticatedUser, referrer, svcVars, ctorVars, op, arg, wait, snap,
                   out>>

\* fetchAuthenticatedUser() of the development service (part_000 76-78): it has
\* no await and resolves to the current user.
DevCallFetch(p) ==
    /\ pc[p] = "idle"
    /\ pc' = [pc EXCEPT ![p] = "done"]
    /\ op' = [op EXCEPT ![p] = "fetch"]
    /\ out' = [out EXCEPT ![p] = Resolved(getAuthenticatedUser)]
    /\ UNCHANGED <<authenticatedUser, referrer, svcVars, ctorVars, arg, req, chain,
                   awaited, wait, snap, eff>>

\* hydrateAuthenticatedUser() of the development service (part_000 112-114).
DevCallHydrate(p) ==
    /\ pc[p] = "idle"
    /\ pc' = [pc EXCEPT ![p] = "done"]
    /\ op' = [op EXCEPT ![p] = "hydrate"]
    /\ out' = [out EXCEPT ![p] = Resolved(getAuthenticatedUser)]
    /\ UNCHANGED <<authenticatedUser, referrer, svcVars, ctorVars, arg, req, chain,
                   awaited, wait, snap, eff>>

\* ensureAuthenticatedUser(redirectUrl) of the development service, up to its
\* await of fetchAuthenticatedUser() (part_000 88-89).
DevCallEnsure(p, redirectUrl) ==
    /\ pc[p] = "idle"
    /\ pc' = [pc EXCEPT ![p] = "e_decide"]
    /\ op' = [op EXCEPT ![p] = "ensure"]
    /\ arg' = [arg EXCEPT ![p] = redirectUrl]
    /\ UNCHANGED <<authenticatedUser, referrer, svcVars, ctorVars, req, chain, awaited,
                   wait, snap, out, eff>>

\* A mutant: only the login URL itself counts as the login page.
DevIsRedirectFromLoginPage_exact == referrer = LOGIN_URL

\* part_000 92-93
DevIsRedirectFromLoginPage == referrer # <<>> /\ StartsWith(referrer, LOGIN_URL)

\* ensureAuthenticatedUser of the development service after its await
\* (part_000 91-109).
DevEnsureDecide(p) ==
    /\ pc[p] = "e_decide"
    /\ pc' = [pc EXCEPT ![p] = "done"]
    /\ IF getAuthenticatedUser = Null
       THEN IF DevIsRedirectFromLoginPage
            THEN /\ out' = [out EXCEPT ![p] = Rejected(RedirectLoopError)]
                 /\ eff' = [eff EXCEPT ![p].log = Append(@, RedirectLoopError)]
            ELSE /\ eff' = [eff EXCEPT ![p].nav =
                               Append(@, getLoginRedirectUrl(
                                   IF arg[p].given THEN arg[p].url ELSE BASE_URL))]
                 /\ out' = [out EXCEPT ![p] = Rejected(UnauthorizedError)]
       ELSE /\ out' = [out EXCEPT ![p] = Resolved(getAuthenticatedUser)]
            /\ eff' = eff
    /\ UNCHANGED <<authenticatedUser, referrer, svcVars, ctorVars, op, arg, req, chain,
                   awaited, wait, snap>>

(***************************************************************************)
(* AbstractAuthService: the operations every service inherits              *)
(***************************************************************************)
LOGOUT_URL == <<"h", ":", "/", "o">>

getLogoutRedirectUrl(redirectUrl) ==
    LOGOUT_URL \o <<"?", "r", "e", "d", "i", "r", "e", "c", "t", "_", "u", "r", "l", "=">>
               \o encodeURIComponent(redirectUrl)

\* getAuthenticatedUser(), called by the application.
CallGetUser(p) ==
    /\ pc[p] = "idle"
    /\ pc' = [pc EXCEPT ![p] = "done"]
    /\ op' = [op EXCEPT ![p] = "getAuthenticatedUser"]
    /\ out' = [out EXCEPT ![p] = Resolved(getAuthenticatedUser)]
    /\ UNCHANGED <<authenticatedUser, referrer, svcVars, ctorVars, arg, req, chain,
                   awaited, wait, snap, eff>>

\* getAuthenticatedHttpClient() and getHttpClient(), called by the application.
CallGetClient(p, authenticated) ==
    /\ pc[p] = "idle"
    /\ pc' = [pc EXCEPT ![p] = "done"]
    /\ op' = [op EXCEPT ![p] = "getHttpClient"]
    /\ out' = [out EXCEPT ![p] =
                  Resolved(IF authenticated THEN handles.authenticatedHttpClient
                           ELSE handles.httpClient)]
    /\ UNCHANGED <<authenticatedUser, referrer, svcVars, ctorVars, arg, req, chain,
                   awaited, wait, snap, eff>>

\* redirectToLogin(redirectUrl) and redirectToLogout(redirectUrl), called by the
\* application: the browser is sent to the URL.
CallRedirect(p, logout, redirectUrl) ==
    LET target == IF redirectUrl.given THEN redirectUrl.url ELSE BASE_URL
    IN  /\ pc[p] = "idle"
        /\ pc' = [pc EXCEPT ![p] = "done"]
        /\ op' = [op EXCEPT ![p] = IF logout THEN "redirectToLogout"
                                   ELSE "redirectToLogin"]
        /\ arg' = [arg EXCEPT ![p] = redirectUrl]
        /\ eff' = [eff EXCEPT ![p].nav =
                      Append(@, IF logout THEN getLogoutRedirectUrl(target)
                                ELSE getLoginRedirectUrl(target))]
        /\ out' = [out EXCEPT ![p] = Resolved(Undefined)]
        /\ UNCHANGED <<authenticatedUser, referrer, svcVars, ctorVars, req, chain,
                       awaited, wait, snap>>

\* The clients of AbstractAuthService.getMiddlewareClients (61-66).
BaseMiddlewareClients == <<handles.authenticatedHttpClient, handles.httpClient>>

\* How often applyMiddleware is called by the application.
MaxApply == 1

\* applyMiddleware(middleware), called by the application on a service that does
\* not override getMiddlewareClients. throwAt as in the constructor's chain.
CallApplyMiddleware(p, mws, throwAt) ==
    LET calls == MiddlewareCalls(MiddlewareList(mws), BaseMiddlewareClients)
    IN  /\ pc[p] = "idle"
        /\ \A o \in ClientObjs, m \in MiddlewareFns : mwApplied[o][m] < MaxApply
        /\ throwAt <= Len(calls)
        /\ pc' = [pc EXCEPT ![p] = "done"]
        /\ op' = [op EXCEPT ![p] = "applyMiddleware"]
        /\ mwApplied' = Applied(calls, IF throwAt = 0 THEN Len(calls) ELSE throwAt - 1)
        /\ IF throwAt = 0
           THEN /\ out' = [out EXCEPT ![p] = Resolved(Undefined)]
                /\ eff' = eff
           ELSE /\ out' = [out EXCEPT ![p] = Rejected(MiddlewareError)]
                /\ eff' = [eff EXCEPT ![p].log = Append(@, MiddlewareError)]
        /\ UNCHANGED <<authenticatedUser, referrer, svcVars, handles, interceptors,
                       cachePromise, cachePc, chainRejection, optMiddleware, middleware,
                       ctorLog, dev, arg, req, chain, awaited, wait, snap>>

(***************************************************************************)
(* Specifications                                                          *)
(***************************************************************************)
Init ==
    /\ authenticatedUser = Null
    /\ referrer \in Referrers
    /\ credential = Null
    /\ refreshPromise = 0
    /\ refreshReqs = {}
    /\ csrfToken = Null
    /\ csrfPromise = 0
    /\ csrfReqs = {}
    /\ handles = [authenticatedHttpClient |-> Derived("a0"), httpClient |-> "H",
                  cachedAuthenticatedHttpClient |-> NoHandle,
                  cachedHttpClient |-> NoHandle]
    /\ interceptors = AddAuthentication([b \in Bases |-> <<>>], "a0")
    /\ cachePromise = "pending"
    /\ cachePc = "wait"
    /\ chainRejection = NoError
    /\ optMiddleware \in MiddlewareOptions
    /\ middleware = Undefined
    /\ mwApplied = [o \in ClientObjs |-> [m \in MiddlewareFns |-> 0]]
    /\ ctorLog = <<>>
    /\ dev = Undefined
    /\ pc = [p \in Procs |-> "idle"]
    /\ op = [p \in Procs |-> "none"]
    /\ arg = [p \in Procs |-> NoArg]
    /\ req = [p \in Procs |-> NoReq]
    /\ chain = [p \in Procs |-> <<>>]
    /\ awaited = [p \in Procs |-> Undefined]
    /\ wait = [p \in Procs |-> 0]
    /\ snap = [p \in Procs |-> Null]
    /\ out = [p \in Procs |-> NoOut]
    /\ eff = [p \in Procs |-> NoEff]

\* The environment: the backend answers a refresh, the credential expires.
CredentialEnv ==
    \/ \E id \in Procs, result \in Tokens \cup {Null} : RefreshSettle(id, result)
    \/ Expire

\* The specifications below each run one part of the service against its
\* environment. The parts share no state but what is named: the session
\* operations read nothing the constructor's promise chain writes (that chain
\* sets the cached handles, the interceptors of the cached instance and the
\* middleware only), and only the session operations write the user.

\* fetchAuthenticatedUser, ensureAuthenticatedUser and setAuthenticatedUser,
\* called by the application's tasks in any interleaving.
NextSession ==
    \/ \E p \in Procs, forceRefresh \in BOOLEAN : CallFetch(p, forceRefresh)
    \/ \E p \in Procs, redirectUrl \in RedirectArgs : CallEnsure(p, redirectUrl)
    \/ \E p \in Procs : FetchResume(p)
    \/ \E p \in Procs : EnsureDecide(p)
    \/ \E authUser \in SetUserArgs : SetUser(authUser)
    \/ \E p \in Procs : Return(p)
    \/ CredentialEnv

InitSession == Init /\ optMiddleware = Undefined

Spec == InitSession /\ [][NextSession]_vars

\* hydrateAuthenticatedUser and setAuthenticatedUser, called by the application's
\* tasks in any interleaving; the GET of the account runs through the interceptors
\* of the authenticated client.
NextHydrate ==
    \/ \E p \in Procs : CallHydrate(p)
    \/ \E p \in Procs : HydrateResume(p)
    \/ \E authUser \in SetUserArgs : SetUser(authUser)
    \/ \E p \in Procs : ReqNext(p)
    \/ \E p \in Procs : ReqJwtResume(p)
    \/ \E p \in Procs : \E response \in Responses(p) : ReqRespond(p, response)
    \/ \E p \in Procs : Return(p)
    \/ CredentialEnv

InitHydrate == Init /\ optMiddleware = Undefined /\ referrer = <<>>

SpecHydrate == InitHydrate /\ [][NextHydrate]_vars

\* The requests one task sends through the clients.
Pipeline(p) ==
    \/ ReqNext(p)
    \/ ReqJwtResume(p)
    \/ ReqCsrfResume(p)
    \/ \E response \in Responses(p) : ReqRespond(p, response)
    \/ RequestResume(p)
    \/ Return(p)

\* The task of the application that sends requests while the constructor's
\* promise chain runs.
FirstTask == CHOOSE p \in Procs : \A q \in Procs : p <= q

\* The client factory: the constructor's promise chain, in any interleaving with
\* the requests a task of the application sends through the four handles.
NextClients ==
    \/ \E authenticated, useCache, isPublic, isCsrfExempt \in BOOLEAN,
          method \in Methods :
          CallRequest(FirstTask, authenticated, useCache, method, isPublic, isCsrfExempt)
    \/ Pipeline(FirstTask)
    \/ CredentialEnv
    \/ \E id \in Procs, result \in {CsrfValue, CsrfFailure} : CsrfSettle(id, result)
    \/ \E ok \in BOOLEAN : CacheSettle(ok)
    \/ CacheThen
    \/ CacheCatch
    \/ \E throwAt \in 0..MaxCalls : CacheFinally(throwAt)

InitClients == Init /\ referrer = <<>>

SpecClients == InitClients /\ [][NextClients]_vars

\* Concurrent requests of the application's tasks through the authenticated client.
NextRequests ==
    \/ \E p \in Procs, isPublic, isCsrfExempt \in BOOLEAN, method \in Methods :
          CallRequest(p, TRUE, FALSE, method, isPublic, isCsrfExempt)
    \/ \E p \in Procs : Pipeline(p)
    \/ CredentialEnv
    \/ \E id \in Procs, result \in {CsrfValue, CsrfFailure} : CsrfSettle(id, result)

InitRequests == Init /\ optMiddleware = Undefined /\ referrer = <<>>

SpecRequests == InitRequests /\ [][NextRequests]_vars

\* The development service after its constructor (part_000 47-59): the user is
\* the mock user of config.dev, or null; both clients carry the mock interceptor.
DevInit ==
    /\ dev \in DevConfigs
    /\ authenticatedUser = DevAuthenticatedUser
    /\ referrer \in Referrers
    /\ credential = Null
    /\ refreshPromise = 0
    /\ refreshReqs = {}
    /\ csrfToken = Null
    /\ csrfPromise = 0
    /\ csrfReqs = {}
    /\ handles = [authenticatedHttpClient |-> Derived("a0"), httpClient |-> "H",
                  cachedAuthenticatedHttpClient |-> NoHandle,
                  cachedHttpClient |-> NoHandle]
    /\ interceptors = [b \in Bases |-> IF b = "C" THEN <<>> ELSE <<"api">>]
    /\ cachePromise = "none"
    /\ cachePc = "none"
    /\ chainRejection = NoError
    /\ optMiddleware = Undefined
    /\ middleware = Undefined
    /\ mwApplied = [o \in ClientObjs |-> [m \in MiddlewareFns |-> 0]]
    /\ ctorLog = <<>>
    /\ pc = [p \in Procs |-> "idle"]
    /\ op = [p \in Procs |-> "none"]
    /\ arg = [p \in Procs |-> NoArg]
    /\ req = [p \in Procs |-> NoReq]
    /\ chain = [p \in Procs |-> <<>>]
    /\ awaited = [p \in Procs |-> Undefined]
    /\ wait = [p \in Procs |-> 0]
    /\ snap = [p \in Procs |-> Null]
    /\ out = [p \in Procs |-> NoOut]
    /\ eff = [p \in Procs |-> NoEff]

\* The session operations of the development service, called by the
\* application's tasks in any interleaving, and the operations it inherits, which
\* run to their end in one step and are called by one task.
NextDev ==
    \/ \E p \in Procs : DevCallFetch(p)
    \/ \E p \in Procs : DevCallHydrate(p)
    \/ \E p \in Procs, redirectUrl \in RedirectArgs : DevCallEnsure(p, redirectUrl)
    \/ \E p \in Procs : DevEnsureDecide(p)
    \/ \E authUser \in SetUserArgs : SetUser(authUser)
    \/ CallGetUser(FirstTask)
    \/ \E authenticated \in BOOLEAN : CallGetClient(FirstTask, authenticated)
    \/ \E logout \in BOOLEAN, redirectUrl \in RedirectArgs :
          CallRedirect(FirstTask, logout, redirectUrl)
    \/ \E mws \in MiddlewareOptions, throwAt \in 0..MaxCalls :
          CallApplyMiddleware(FirstTask, mws, throwAt)
    \/ \E p \in Procs : Return(p)

SpecDev == DevInit /\ [][NextDev]_vars

\* The requests of the application through the clients of the development service.
NextDevRequests ==
    \/ \E p \in Procs, authenticated \in BOOLEAN, mockApiId \in MockApiIds :
          DevCallRequest(p, authenticated, mockApiId)
    \/ \E p \in Procs : DevReqNext(p)
    \/ \E p \in Procs : \E response \in Responses(p) : ReqRespond(p, response)
    \/ \E p \in Procs : RequestResume(p)
    \/ \E p \in Procs : Return(p)

SpecDevRequests == DevInit /\ [][NextDevRequests]_vars

(***************************************************************************)
(* Properties                                                              *)
(***************************************************************************)
\* The step in which task p's ensureAuthenticatedUser decides.
EnsureDecides(p) == pc[p] = "e_decide" /\ pc'[p] = "done"

\* "h:/l?next=" followed by the encoded target.
LoginUrlFor(target) ==
    LOGIN_URL \o <<"?", "n", "e", "x", "t", "=">> \o encodeURIComponent(target)

\* C1: an ensureAuthenticatedUser that finds no user while the referrer is the
\* login page (the referrer starts with LOGIN_URL) rejects with the redirect-loop
\* error, and the call has navigated nowhere.
C1_RedirectLoopRejects ==
    [][\A p \in Procs :
          (/\ EnsureDecides(p)
           /\ authenticatedUser = Null
           /\ referrer # <<>>
           /\ StartsWith(referrer, LOGIN_URL))
          => /\ out'[p] = Rejected(RedirectLoopError)
             /\ eff[p].nav = <<>>
             /\ eff'[p].nav = <<>>]_vars

C1_Witness ==
    \E p \in Procs :
        /\ pc[p] = "done"
        /\ op[p] = "ensure"
        /\ referrer = LOGIN_URL
        /\ authenticatedUser = Null
        /\ out[p] = Rejected(RedirectLoopError)
        /\ eff[p].nav = <<>>

\* C2: an ensureAuthenticatedUser that finds no user while the referrer is not
\* the login page navigates exactly once, to LOGIN_URL?next=<encoded redirectUrl>
\* (redirectUrl defaulting to BASE_URL), and rejects with the isRedirecting error.
C2_RedirectsOnce ==
    [][\A p \in Procs :
          /\ Len(eff'[p].nav) <= 1
          /\ (/\ EnsureDecides(p)
              /\ authenticatedUser = Null
              /\ ~(referrer # <<>> /\ StartsWith(referrer, LOGIN_URL)))
             => /\ eff[p].nav = <<>>
                /\ eff'[p].nav =
                      <<LoginUrlFor(IF arg[p].given THEN arg[p].url ELSE BASE_URL)>>
                /\ out'[p].kind = "rejected"
                /\ out'[p].error = UnauthorizedError
                /\ out'[p].error.isRedirecting]_vars

C2_Witness ==
    \E p \in Procs :
        /\ pc[p] = "done"
        /\ op[p] = "ensure"
        /\ ~arg[p].given
        /\ referrer = BASE_URL
        /\ out[p] = Rejected(UnauthorizedError)
        /\ eff[p].nav =
              << <<"h", ":", "/", "l", "?", "n", "e", "x", "t", "=",
                   "h", "%", "3", "A", "%", "2", "F", "b">> >>

\* The tasks suspended in getJwtToken on a refresh.
AwaitsRefresh(q) == pc[q] \in {"f_tok", "r_jwt"} /\ wait[q] # 0

\* C3: at most one refresh is in flight and none is started while one is; the
\* tasks that called getJwtToken while it was in flight all await that refresh,
\* and when it settles they all resume with its one result.
C3_SingleRefresh ==
    [][/\ Cardinality(refreshReqs') <= 1
       /\ (refreshReqs # {} => refreshReqs' \subseteq refreshReqs)
       /\ \A q \in Procs : AwaitsRefresh(q)' => refreshReqs' = {wait'[q]}
       /\ (refreshReqs # {} /\ refreshReqs' = {})
          => \A q1, q2 \in Procs :
                (AwaitsRefresh(q1) /\ AwaitsRefresh(q2))
                => /\ wait'[q1] = 0
                   /\ awaited'[q1] # Undefined
                   /\ awaited'[q1] = awaited'[q2]]_vars

C3_Witness ==
    \E p, q \in Procs :
        /\ p # q
        /\ AwaitsRefresh(p)
        /\ AwaitsRefresh(q)
        /\ wait[p] = wait[q]
        /\ refreshReqs = {wait[p]}

\* The tasks suspended in getCsrfToken on a fetch.
AwaitsCsrf(q) == pc[q] = "r_csrf" /\ wait[q] # 0

\* The step in which task p calls getCsrfToken.
CallsGetCsrf(p) == eff'[p].getCsrf = eff[p].getCsrf + 1

\* C4: getCsrfToken hands out the cached token without a fetch; with none cached
\* at most one fetch is in flight, every task that asked meanwhile awaits that
\* fetch, and when it settles they all resume with its token, or all with the
\* error when it failed.
C4_SingleCsrfFetch ==
    [][/\ Cardinality(csrfReqs') <= 1
       /\ \A p \in Procs :
             (CallsGetCsrf(p) /\ csrfToken # Null)
             => /\ csrfReqs' = csrfReqs
                /\ wait'[p] = 0
                /\ awaited'[p] = csrfToken
       /\ \A q \in Procs : AwaitsCsrf(q)' => csrfReqs' = {wait'[q]}
       /\ (csrfReqs # {} /\ csrfReqs' = {})
          => \A q \in Procs :
                AwaitsCsrf(q)
                => /\ wait'[q] = 0
                   /\ awaited'[q] = IF csrfToken' # Null THEN csrfToken' ELSE CsrfError]_vars

C4_Witness ==
    \E p, q \in Procs :
        /\ p # q
        /\ csrfToken = Null
        /\ AwaitsCsrf(p)
        /\ AwaitsCsrf(q)
        /\ wait[p] = wait[q]
        /\ csrfReqs = {wait[p]}

\* The user object a decoded token stands for.
ExpectedUser(t) ==
    [email |-> t.email, userId |-> t.user_id, username |-> t.preferred_username,
     roles |-> IF "roles" \in DOMAIN t THEN t.roles ELSE <<>>,
     administrator |-> t.administrator, name |-> t.name]

\* The step in which the fetchAuthenticatedUser of task p completes.
FetchCompletes(p) == pc[p] = "f_tok" /\ pc'[p] # "f_tok"

\* C5: a completing fetchAuthenticatedUser sets the user to what its credential
\* lookup gave, whatever the user was: the user of the token's claims, or null
\* with no credential; it resolves to that user and is never rejected.
C5_FetchSetsUser ==
    [][\A p \in Procs :
          /\ (op'[p] = "fetch" => out'[p].kind # "rejected")
          /\ FetchCompletes(p)
             => /\ authenticatedUser' =
                      IF awaited[p] = Null THEN Null ELSE ExpectedUser(awaited[p])
                /\ op[p] = "fetch" => out'[p] = Resolved(authenticatedUser')]_vars

C5_Witness ==
    \E p \in Procs :
        /\ pc[p] = "done"
        /\ op[p] = "fetch"
        /\ credential # Null
        /\ credential.expired
        /\ out[p] = Resolved(Null)
        /\ authenticatedUser = Null

\* C6: hydrateAuthenticatedUser called without a user returns at once: no
\* request is sent, no refresh or fetch is started, the user stays null.
C6_HydrateAnonymousNoop ==
    [][\A p \in Procs :
          (pc[p] = "idle" /\ op'[p] = "hydrate" /\ authenticatedUser = Null)
          => /\ pc'[p] = "done"
             /\ out'[p] = Resolved(Undefined)
             /\ eff'[p].net = 0
             /\ chain'[p] = <<>>
             /\ authenticatedUser' = Null
             /\ UNCHANGED svcVars]_vars

C6_Witness ==
    \E p \in Procs :
        /\ pc[p] = "done"
        /\ op[p] = "hydrate"
        /\ eff[p].net = 0
        /\ out[p] = Resolved(Undefined)
        /\ authenticatedUser = Null

\* C7: a hydrateAuthenticatedUser whose GET succeeds sets the user to the user it
\* read merged with the profile: the profile's fields under their camelCase
\* names with the profile's values, the other fields of the user as they were.
C7_HydrateMerges ==
    [][\A p \in Procs :
          (/\ pc[p] = "r_resp"
           /\ op[p] = "hydrate"
           /\ pc'[p] = "done"
           /\ awaited[p].kind = "resolved")
          => LET data == awaited[p].value.data
                 keys == {camelCase(w) : w \in DOMAIN data}
             IN  /\ DOMAIN authenticatedUser' = DOMAIN snap[p] \cup keys
                 /\ \A w \in DOMAIN data : authenticatedUser'[camelCase(w)] = data[w]
                 /\ \A k \in DOMAIN snap[p] \ keys :
                       authenticatedUser'[k] = snap[p][k]]_vars

C7_Witness ==
    \E p \in Procs :
        /\ pc[p] = "done"
        /\ op[p] = "hydrate"
        /\ out[p] = Resolved(Undefined)
        /\ eff[p].net = 1
        /\ authenticatedUser =
              [userId |-> "77", username |-> "z", roles |-> <<"x">>, fullName |-> "Full"]

\* The constructor's chain has handled the outcome of configureCache(): its .then
\* or its .catch handler has run.
CacheInitSettled == cachePc \in {"finally", "done", "unhandled"}

\* How often an entry is in the constructor's log.
Logged(entry) == Cardinality({i \in 1..Len(ctorLog) : ctorLog[i] = entry})

\* C8: once a failed cache initialization has settled, each getter returns for
\* useCache the very client it returns without; the failure is in the log exactly
\* once, and it is not what the constructor's chain ends rejected with.
C8_CacheFailureFallsBack ==
    (cachePromise = "rejected" /\ CacheInitSettled)
    => /\ getHttpClient(TRUE) = getHttpClient(FALSE)
       /\ getAuthenticatedHttpClient(TRUE) = getAuthenticatedHttpClient(FALSE)
       /\ getHttpClient(TRUE) = "H"
       /\ getAuthenticatedHttpClient(TRUE) = "A"
       /\ Logged(CacheFailureEntry) = 1
       /\ chainRejection \in {NoError, MiddlewareError}

C8_Witness ==
    /\ cachePromise = "rejected"
    /\ cachePc = "done"
    /\ handles.cachedHttpClient = handles.httpClient
    /\ handles.cachedAuthenticatedHttpClient = handles.authenticatedHttpClient
    /\ ctorLog = <<CacheFailureEntry>>

\* The four handles the getters hand out.
FourHandles ==
    {getAuthenticatedHttpClient(FALSE), getHttpClient(FALSE),
     getAuthenticatedHttpClient(TRUE), getHttpClient(TRUE)}

\* The middleware a client object carries.
Carried(client) == {m \in MiddlewareFns : mwApplied[client][m] > 0}

\* The functions of options.middleware.
GivenMiddleware ==
    IF optMiddleware = Undefined THEN {}
    ELSE {optMiddleware.fns[i] : i \in 1..Len(optMiddleware.fns)}

\* C9: a middleware has been called on a client only when the cache
\* initialization has settled and both cached handles are set; when
\* applyMiddleware has returned, each of the four handles carries every
\* middleware of options.middleware.
C9_MiddlewareAfterSettle ==
    /\ (\E o \in ClientObjs : Carried(o) # {})
       => /\ cachePromise # "pending"
          /\ CacheInitSettled
          /\ NoHandle \notin FourHandles
    /\ cachePc = "done"
       => \A h \in FourHandles : h # NoHandle /\ Carried(h) = GivenMiddleware

C9_Witness ==
    /\ cachePromise = "resolved"
    /\ cachePc = "done"
    /\ optMiddleware # Undefined
    /\ Cardinality(FourHandles) = 4
    /\ \A h \in FourHandles : Carried(h) = {"m1", "m2"}

\* C10: a request flagged isCsrfExempt never calls getCsrfToken, whatever its
\* method and client, and whether a token is cached or not.
C10_ExemptSkipsCsrf ==
    \A p \in Procs :
        (op[p] = "request" /\ req[p].isCsrfExempt)
        => /\ eff[p].getCsrf = 0
           /\ pc[p] # "r_csrf"
           /\ req[p].csrf = Null

C10_Witness ==
    \E p \in Procs :
        /\ op[p] = "request"
        /\ req[p].isCsrfExempt
        /\ req[p].method = "post"
        /\ req[p].client = getAuthenticatedHttpClient(FALSE)
        /\ csrfToken = Null
        /\ pc[p] = "done"
        /\ out[p].kind = "resolved"
        /\ eff[p].net = 1
        /\ eff[p].getCsrf = 0

\* C11: a request flagged isPublic never calls getJwtToken, whatever its client
\* and method, and whether or not a credential is cached.
C11_PublicSkipsCredential ==
    \A p \in Procs :
        (op[p] = "request" /\ req[p].isPublic)
        => /\ eff[p].getJwt = 0
           /\ pc[p] # "r_jwt"
           /\ req[p].jwt = Null

C11_Witness ==
    \E p \in Procs :
        /\ op[p] = "request"
        /\ req[p].isPublic
        /\ req[p].client = getAuthenticatedHttpClient(FALSE)
        /\ credential = Null
        /\ refreshReqs = {}
        /\ pc[p] = "done"
        /\ out[p].kind = "resolved"
        /\ eff[p].net = 1
        /\ eff[p].getJwt = 0

\* The request methods of HTTP, as axios hands them to the interceptors.
HttpMethods == {"get", "head", "options", "post", "put", "patch", "delete"}

\* The authenticated handles that are set.
AuthenticatedHandles ==
    {getAuthenticatedHttpClient(FALSE), getAuthenticatedHttpClient(TRUE)} \ {NoHandle}

\* The request of task p has passed interceptor i of its client.
Passed(p, i) ==
    /\ op[p] = "request"
    /\ pc[p] # "idle"
    /\ req[p].client # NoHandle
    /\ \E k \in 1..Len(RunOrder(req[p].client)) : RunOrder(req[p].client)[k] = i
    /\ \A k \in 1..Len(chain[p]) : chain[p][k] # i

\* C12: a request through an authenticated client that is not flagged exempt has
\* called getCsrfToken once when it has passed the anti-forgery interceptor and
\* its method is post, put, patch or delete, and not at all otherwise; the
\* interceptor skips exactly the other methods.
C12_CsrfForProtectedMethods ==
    /\ \A m \in HttpMethods :
          CsrfShouldSkip([NoReq EXCEPT !.method = m])
             <=> m \notin {"post", "put", "patch", "delete"}
    /\ \A p \in Procs :
          (op[p] = "request" /\ req[p].client \in AuthenticatedHandles
                             /\ ~req[p].isCsrfExempt)
          => eff[p].getCsrf =
                IF Passed(p, "csrf") /\ req[p].method \in {"post", "put", "patch", "delete"}
                THEN 1 ELSE 0

C12_Witness ==
    \E p \in Procs :
        /\ op[p] = "request"
        /\ req[p].client = getAuthenticatedHttpClient(TRUE)
        /\ req[p].client # getAuthenticatedHttpClient(FALSE)
        /\ ~req[p].isCsrfExempt
        /\ req[p].method = "delete"
        /\ Passed(p, "csrf")
        /\ eff[p].getCsrf = 1
        /\ pc[p] = "done"

\* The fields of a response a table entry can override.
ResponseFields == {"data", "status", "statusText", "headers"}

\* The canned response of a table entry: the defaults, each overridden by the
\* entry's field of the same name.
CannedResponse(entry) ==
    [f \in ResponseFields |->
        IF f \in DOMAIN entry THEN entry[f]
        ELSE CASE f = "data" -> <<>>
               [] f = "status" -> 200
               [] f = "statusText" -> "OK"
               [] f = "headers" -> [content_type |-> "application/json"]]

\* The request of task p has run through the mock interceptor.
Intercepted(p) == op[p] = "request" /\ pc[p] # "idle" /\ chain[p] = <<>>

\* C13: in mock mode a request whose mockApiId is not a key of the table leaves
\* the interceptor with its adapter as it was; a request whose mockApiId is a key
\* has its adapter replaced, goes to no network and resolves with the defaults
\* overridden field by field by the table's entry.
C13_MockTable ==
    \A p \in Procs :
        Intercepted(p)
        => IF req[p].mockApiId \in DOMAIN DevApiConfig
           THEN /\ req[p].adapter.mock
                /\ eff[p].net = 0
                /\ pc[p] = "done"
                   => /\ out[p].kind = "resolved"
                      /\ \A f \in ResponseFields :
                            out[p].value[f] =
                               CannedResponse(DevApiConfig[req[p].mockApiId])[f]
           ELSE req[p].adapter = DefaultAdapter

\* A request whose mockApiId names no key of the table but a property every
\* object inherits has been answered by the mock adapter.
C13_Witness ==
    \E p \in Procs :
        /\ Intercepted(p)
        /\ req[p].mockApiId = "constructor"
        /\ req[p].mockApiId \notin DOMAIN DevApiConfig
        /\ pc[p] = "done"
        /\ out[p].kind = "resolved"
        /\ out[p].value.status = 200
        /\ eff[p].net = 0

\* The development service's ensureAuthenticatedUser decides in this step.
DevEnsureDecides(p) == op[p] = "ensure" /\ pc[p] = "e_decide" /\ pc'[p] = "done"

\* C14: every decision of the development service's ensureAuthenticatedUser is
\* the decision AxiosJwtAuthService.ensureAuthenticatedUser takes from the same
\* user, referrer and redirectUrl: the same value, the same rejection, the same
\* navigation and the same log entry.
C14_DevEnsureAsJwt ==
    [][\A p \in Procs : DevEnsureDecides(p) => EnsureDecide(p)]_vars

C14_Witness ==
    \E p, q \in Procs :
        /\ op[p] = "ensure" /\ pc[p] = "done"
        /\ out[p] = Rejected(RedirectLoopError)
        /\ eff[p].nav = <<>>
        /\ referrer # LOGIN_URL
        /\ op[q] = "ensure" /\ pc[q] = "done"
        /\ out[q] = Resolved(DevUser)

\* A step that changes the user is a call of setAuthenticatedUser, and the user
\* is then the call's argument.
OnlySetterWrites ==
    \/ authenticatedUser' = authenticatedUser
    \/ \E authUser \in SetUserArgs : SetUser(authUser) /\ authenticatedUser' = authUser

\* C15 as stated: the user is null when the service has been constructed, and
\* only setAuthenticatedUser changes it.
C15_NullUntilSet == authenticatedUser = Null /\ [][OnlySetterWrites]_vars

\* C15, amended: the user of a constructed development service is the mock user
\* of config.dev when one is configured and null otherwise; whatever the service,
\* only setAuthenticatedUser changes it afterwards, and no call of
\* getAuthenticatedUser, redirectToLogin, redirectToLogout, getHttpClient or
\* applyMiddleware does.
C15_ConfiguredUntilSet ==
    /\ authenticatedUser =
          IF dev # Undefined /\ "authenticatedUser" \in DOMAIN dev
          THEN dev.authenticatedUser ELSE Null
    /\ [][OnlySetterWrites]_vars

C15_Witness ==
    /\ authenticatedUser = DevUser
    /\ \A m \in MiddlewareFns : mwApplied[handles.httpClient][m] = 1
    /\ \E p \in Procs :
          /\ op[p] = "redirectToLogout" /\ pc[p] = "done"
          /\ eff[p].nav = <<getLogoutRedirectUrl(BASE_URL)>>

\* The request of task p has called getCsrfToken.
CsrfStarted(p) == eff[p].getCsrf > 0 \/ pc[p] = "r_csrf"

\* C16: a request through an authenticated client that is neither public nor
\* exempt and has a protected method calls getCsrfToken only when its credential
\* interceptor has called getJwtToken and has resumed from it.
C16_CredentialBeforeCsrf ==
    \A p \in Procs :
        (/\ op[p] = "request"
         /\ req[p].client \in AuthenticatedHandles
         /\ ~req[p].isPublic
         /\ ~req[p].isCsrfExempt
         /\ req[p].method \in {"post", "put", "patch", "delete"}
         /\ CsrfStarted(p))
        => /\ Passed(p, "jwt")
           /\ eff[p].getJwt = 1
           /\ pc[p] # "r_jwt"

C16_Witness ==
    \E p \in Procs :
        /\ op[p] = "request"
        /\ req[p].client \in AuthenticatedHandles
        /\ ~req[p].isPublic /\ ~req[p].isCsrfExempt
        /\ req[p].method = "post"
        /\ pc[p] = "r_csrf"
        /\ wait[p] # 0
        /\ req[p].jwt \in Tokens
        /\ eff[p].getJwt = 1

\* C17: in every state after the constructor has returned, also while
\* configureCache() is pending, both getters return a client for useCache.
C17_CachedHandlesUsable ==
    /\ getHttpClient(TRUE) # NoHandle
    /\ getAuthenticatedHttpClient(TRUE) # NoHandle

\* A request sent with the cached authenticated client while configureCache()
\* is pending has failed on the null handle.
C17_Witness ==
    \E p \in Procs :
        /\ cachePromise = "pending"
        /\ getAuthenticatedHttpClient(TRUE) = NoHandle
        /\ op[p] = "request"
        /\ req[p].client = NoHandle
        /\ pc[p] = "done"
        /\ out[p] = Rejected(TypeError)

\* C18: no client object has a middleware called on it twice, and when
\* applyMiddleware has returned after the cache initialization settled, each
\* middleware was called exactly once on each distinct client object of the
\* four handles.
C18_MiddlewareOncePerClient ==
    /\ \A o \in ClientObjs, m \in MiddlewareFns : mwApplied[o][m] <= 1
    /\ cachePc = "done"
       => \A o \in FourHandles, m \in GivenMiddleware : mwApplied[o][m] = 1

\* The cache initialization failed, the cached handles alias the direct clients,
\* and applyMiddleware has called each middleware twice on each of the two.
C18_Witness ==
    /\ cachePromise = "rejected"
    /\ cachePc = "done"
    /\ FourHandles = {"A", "H"}
    /\ \A o \in FourHandles, m \in GivenMiddleware : mwApplied[o][m] = 2
    /\ GivenMiddleware = {"m1", "m2"}

\* hydrateAuthenticatedUser of task p completes in this step.
HydrateCompletes(p) == pc[p] = "r_resp" /\ op[p] = "hydrate" /\ pc'[p] = "done"

\* C19: a hydrate that completes when the user is no longer the one it read
\* (null, or a user set meanwhile) leaves the user as it is; in particular an
\* anonymous session stays anonymous.
C19_HydrateKeepsLaterUser ==
    [][\A p \in Procs :
          (HydrateCompletes(p) /\ authenticatedUser # snap[p])
          => authenticatedUser' = authenticatedUser]_vars

\* The profile lookup of a hydrate has succeeded and the hydrate is about to
\* resume, while the session has been set to anonymous since it read the user.
C19_Witness ==
    \E p \in Procs :
        /\ op[p] = "hydrate"
        /\ pc[p] = "r_resp"
        /\ awaited[p].kind = "resolved"
        /\ snap[p] # Null
        /\ authenticatedUser = Null

\* The unauthenticated handles that are set.
UnauthenticatedHandles == {getHttpClient(FALSE), getHttpClient(TRUE)} \ {NoHandle}

\* C20: once the cache initialization has settled, the unauthenticated handles
\* carry no authentication interceptor, and no request through them calls
\* getJwtToken or getCsrfToken.
C20_UnauthenticatedSkipsProvider ==
    CacheInitSettled
    => /\ \A h \in UnauthenticatedHandles : RunOrder(h) = <<>>
       /\ \A p \in Procs :
             (op[p] = "request" /\ req[p].client \in UnauthenticatedHandles)
             => eff[p].getJwt = 0 /\ eff[p].getCsrf = 0

\* A post sent with getHttpClient({useCache: true}) after a successful cache
\* initialization has called both token getters.
C20_Witness ==
    \E p \in Procs :
        /\ cachePromise = "resolved"
        /\ op[p] = "request"
        /\ req[p].client = getHttpClient(TRUE)
        /\ req[p].client # getAuthenticatedHttpClient(TRUE)
        /\ req[p].method = "post"
        /\ pc[p] = "done"
        /\ eff[p].getJwt = 1
        /\ eff[p].getCsrf = 1

\* C21: in every interleaving with the other session operations, a deciding
\* ensureAuthenticatedUser navigates or rejects only when the user is null at
\* that moment; when the user is not null it resolves to that user without
\* navigation, whatever the referrer, and leaves the user as it is.
C21_EnsureDecidesOnCurrentUser ==
    [][\A p \in Procs :
          (EnsureDecides(p) /\ op[p] = "ensure")
          => /\ (eff'[p].nav # eff[p].nav \/ out'[p].kind = "rejected")
                => authenticatedUser = Null
             /\ out'[p].kind = "resolved"
                => /\ out'[p].value # Null
                   /\ out'[p].value = authenticatedUser
             /\ authenticatedUser # Null
                => /\ out'[p].kind = "resolved"
                   /\ eff'[p].nav = eff[p].nav
             /\ authenticatedUser' = authenticatedUser]_vars

\* An ensureAuthenticatedUser whose fetch found no credential has resolved, with
\* the login page as referrer, to a user set between its fetch and its decision.
C21_Witness ==
    \E p \in Procs :
        /\ op[p] = "ensure"
        /\ pc[p] = "done"
        /\ StartsWith(referrer, LOGIN_URL)
        /\ credential = Null
        /\ out[p].kind = "resolved"
        /\ out[p].value # Null
        /\ out[p].value = authenticatedUser
        /\ eff[p].nav = <<>>

====
